---- MODULE Spec2Model ----
(***************************************************************************)
(* Model of the MessagingService of iframe-communicator (the generation   *)
(* with the channel state and the one-shot retry timer): two service       *)
(* instances, one in the main window (constructed with a frame) and one in *)
(* the embedded frame (constructed without), exchanging window messages.   *)
(*                                                                         *)
(*   Spec      the two instances over a transport that loses, duplicates   *)
(*             and reorders messages                                       *)
(*   SpecApp   the two instances and their handlers over a transport that  *)
(*             delivers every message once                                 *)
(*   SpecOpen  one instance alone, receiving any sequence of events from   *)
(*             other windows                                               *)
(*   SpecNew   the two windows from before the construction of either      *)
(*             instance, each constructed with its target or with "*"      *)
(*   SpecHandlers  one instance alone and its handler table, with handler  *)
(*             ids that may repeat and a callback that throws              *)
(*   SpecFanOut  one instance alone posting to several peers, one of them  *)
(*             behind a handle whose postMessage throws                    *)
(*   SpecRace  the handshake with a timer callback that runs after the     *)
(*             timer was cancelled                                         *)
(*   SpecDetached  the handshake of an Initiator whose frame may have no   *)
(*             content window when the timer fires                         *)
(*   SpecFair  the handshake over a transport that loses nothing, every    *)
(*             message eventually delivered, every timer eventually fired  *)
(***************************************************************************)
EXTENDS Integers, Sequences, FiniteSets, TLC

\* ------------------------------------------------------------------ bounds

\* Number of distinct values GetRandomNumber() is taken to return for tokens.
MaxTok == 2

\* ------------------------------------------------------- program constants

WILDCARD_TARGET == "*"
UNKNOWN_DESTINATION == "UNKNOWN_DESTINATION"

\* ------------------------------------------------------------ configuration

\* The two service instances, named after the window each lives in.
Instances == {"W", "F"}
\* Absent window reference (undefined / null).
NoWindow == "null"
\* A window that belongs to neither instance.
OtherWindow == "X"
\* A peer handle whose postMessage throws (a MessagePort given a target
\* origin, a stub): the source of an event need not be a window.
BrokenWindow == "broken"

\* constructor arguments: frame (its contentWindow), overrideId, target.
Frame == [p \in Instances |-> IF p = "W" THEN "F" ELSE NoWindow]
Id == [p \in Instances |-> IF p = "W" THEN "A" ELSE "B"]
PageOrigin == "http://page"
ForeignOrigin == "http://evil"
Target == [p \in Instances |-> PageOrigin]
WindowOrigin(w) == IF w \in Instances THEN PageOrigin ELSE ForeignOrigin

Tokens == {"t1", "t2", "t3", "t4"}
TokenPool == {t \in Tokens : \E i \in 1..MaxTok : t = <<"t1", "t2", "t3", "t4">>[i]}
Payloads == {"d1"}

\* The callbacks an application registers: h1 and h2 return, hThrows throws.
Callbacks == {"h1", "h2", "hThrows"}
HandlerThrows(fn) == fn = "hThrows"
HandlerError == "handler failed"
\* The handler ids parseInt(GetRandomNumber()) is taken to return.
HandlerIds == {1, 2}

\* ---------------------------------------------------------------- messages

NoState == ""
States == {"SYN", "SYN+ACK", "ACK", "FIN"}

\* event.data: a ChannelInitializationMessage carries state, source and frame,
\* a ChannelMessage carries data; the fields a message lacks are empty.
InitializationMessage(token, source, state, frame) ==
    [token |-> token, source |-> source, state |-> state, frame |-> frame, data |-> ""]
ChannelMessage(token, data) ==
    [token |-> token, source |-> "", state |-> NoState, frame |-> 0, data |-> data]
\* A falsy event.data (null, undefined, 0, "").
NullData == [token |-> "", source |-> "", state |-> NoState, frame |-> 0, data |-> ""]

\* A MessageEvent on its way to window `to`.
Event(to, source, origin, data) ==
    [to |-> to, source |-> source, origin |-> origin, data |-> data]
NoEvent == Event("", "", "", NullData)

\* ------------------------------------------------------------------- state

VARIABLES
    channels,   \* channels[p]: the Map token -> Channel, in insertion order
    handlers,   \* handlers[p]: the Map handlerId -> MessageHandler, in insertion order
    interval,   \* interval[p]: the retry timer: "unset", "pending", "expired", "cancelled"
    net,        \* the window messages in flight (a set of events: equal ones coalesce)
    last,       \* the last step taken: operation, instance, input, error thrown
    out,        \* the window.postMessage calls made by the last step, in order
    calls,      \* the handler invocations made by the last step, in order
    reliable,   \* TRUE while the transport has neither lost nor duplicated a message
    attacked,   \* the instance other windows post events to ("" while none has)
    listening,  \* the instances whose listener is subscribed to their window's messages
    discarded,  \* discarded[p]: the tokens p had a channel for and has none for now
    attempts    \* attempts[p]: the SYNs p's bootstrap has sent: 0, 1, or 2 for more

vars == <<channels, handlers, interval, net, last, out, calls, reliable, attacked,
          listening, discarded, attempts>>

NoError == ""
Step(op, p, ev, arg, err) ==
    [op |-> op, inst |-> p, event |-> ev, arg |-> arg, err |-> err, id |-> 0, window |-> ""]
\* A step of the handler API: id is the handler id returned or given.
HandlerStep(op, p, fn, id) == [Step(op, p, NoEvent, fn, NoError) EXCEPT !.id = id]

\* A run of connectToFrame: token is the token drawn, window is what
\* frame.contentWindow was.
BootstrapStep(p, token, window, err) ==
    [Step("connectToFrame", p, NoEvent, token, err) EXCEPT !.window = window]

\* ------------------------------------------------------------ Map helpers

Has(m, token) == \E i \in 1..Len(m) : m[i].token = token
Get(m, token) == m[CHOOSE i \in 1..Len(m) : m[i].token = token]
\* Map.set: replaces the value of an existing key in place, else appends.
MapSet(m, channel) ==
    IF Has(m, channel.token)
    THEN [i \in 1..Len(m) |-> IF m[i].token = channel.token THEN channel ELSE m[i]]
    ELSE Append(m, channel)
KeysOf(m) == {m[i].token : i \in 1..Len(m)}

HasHandler(h, id) == \E i \in 1..Len(h) : h[i].id = id
SetHandler(h, id, fn) ==
    IF HasHandler(h, id)
    THEN [i \in 1..Len(h) |-> IF h[i].id = id THEN [id |-> id, fn |-> fn] ELSE h[i]]
    ELSE Append(h, [id |-> id, fn |-> fn])
DeleteHandler(h, id) == SelectSeq(h, LAMBDA e : e.id # id)

\* ------------------------------------------------------------- the service

Channel(token, destination, initialized, window, state) ==
    [token |-> token, destination |-> destination, initialized |-> initialized,
     window |-> window, state |-> state]

\* What one run of a method leaves behind for its instance.
Result(ch, iv, o, c, e) == [channels |-> ch, interval |-> iv, out |-> o, calls |-> c, err |-> e]

AtLeastOneInitializedChannel(ch) == \E i \in 1..Len(ch) : ch[i].initialized

\* postMessageInternal: the window.postMessage calls it makes (none without a window).
postMessageInternal(p, data, channel) ==
    IF channel.window = NoWindow
    THEN <<>>
    ELSE <<[to |-> channel.window, targetOrigin |-> Target[p], data |-> data]>>

postInitializationMessage(p, data, channel) == postMessageInternal(p, data, channel)

\* channel.window.postMessage throws on the handle w.
SendThrows(w) == w = BrokenWindow
SendError == "postMessage failed"
\* The error a run of window.postMessage calls ends with: the last call is
\* the one that threw, if any did.
Thrown(o) == IF o # <<>> /\ SendThrows(o[Len(o)].to) THEN SendError ELSE NoError

\* clearInterval(this.interval) under `if (this.interval)`.
ClearInterval(iv) == IF iv = "pending" THEN "cancelled" ELSE iv

RECURSIVE PostToEach_AllChannels(_, _, _, _)
\* Mutant: the forEach without the skip of non-initialized channels.
PostToEach_AllChannels(p, ch, data, i) ==
    IF i > Len(ch) THEN <<>>
    ELSE postMessageInternal(p, ChannelMessage(ch[i].token, data), ch[i])
         \o PostToEach_AllChannels(p, ch, data, i + 1)

RECURSIVE PostToEach_StopsAtSkip(_, _, _, _)
\* Mutant: the skip of a non-initialized channel ends the whole loop.
PostToEach_StopsAtSkip(p, ch, data, i) ==
    IF i > Len(ch) THEN <<>>
    ELSE IF ~ch[i].initialized THEN <<>>
    ELSE postMessageInternal(p, ChannelMessage(ch[i].token, data), ch[i])
         \o PostToEach_StopsAtSkip(p, ch, data, i + 1)

RECURSIVE PostToEach(_, _, _, _)
\* The forEach of postMessage, from index i on.
PostToEach(p, ch, data, i) ==
    IF i > Len(ch) THEN <<>>
    ELSE LET o == IF ~ch[i].initialized
                  THEN <<>>
                  ELSE postMessageInternal(p, ChannelMessage(ch[i].token, data), ch[i])
         IN IF Thrown(o) # NoError THEN o ELSE o \o PostToEach(p, ch, data, i + 1)

\* Mutant: postMessage without the check for an initialized channel.
postMessage_NoInitializedCheck(p, ch, iv, data) ==
    IF Len(ch) = 0 THEN Result(ch, iv, <<>>, <<>>, "No channel.")
    ELSE Result(ch, iv, PostToEach(p, ch, data, 1), <<>>, NoError)

postMessage(p, ch, iv, data) ==
    IF Len(ch) = 0 THEN Result(ch, iv, <<>>, <<>>, "No channel.")
    ELSE IF ~AtLeastOneInitializedChannel(ch)
    THEN Result(ch, iv, <<>>, <<>>, "No channel initialized")
    ELSE LET o == PostToEach(p, ch, data, 1)
         IN Result(ch, iv, o, <<>>, Thrown(o))

\* connectToFrame's guard: some channel has left the SYN state.
InitializationOngoing(ch) == \E i \in 1..Len(ch) : ch[i].state # "SYN"

\* Mutant: connectToFrame without channels.clear().
connectToFrame_NoClear(p, ch, token) ==
    IF InitializationOngoing(ch)
    THEN Result(ch, "expired", <<>>, <<>>, NoError)
    ELSE LET channel == Channel(token, UNKNOWN_DESTINATION, FALSE, Frame[p], "SYN")
         IN Result(MapSet(ch, channel), "pending",
                   postInitializationMessage(p, InitializationMessage(token, Id[p], "SYN", 1), channel),
                   <<>>, NoError)

\* Mutant: connectToFrame without the call of delayConnectToFrame.
connectToFrame_NoReschedule(p, ch, token) ==
    IF InitializationOngoing(ch)
    THEN Result(ch, "expired", <<>>, <<>>, NoError)
    ELSE LET channel == Channel(token, UNKNOWN_DESTINATION, FALSE, Frame[p], "SYN")
         IN Result(<<channel>>, "expired",
                   postInitializationMessage(p, InitializationMessage(token, Id[p], "SYN", 1), channel),
                   <<>>, NoError)

\* Mutant: connectToFrame without the guard on the channels' states.
connectToFrame_NoGuard(p, ch, token) ==
    LET channel == Channel(token, UNKNOWN_DESTINATION, FALSE, Frame[p], "SYN")
    IN Result(<<channel>>, "pending",
              postInitializationMessage(p, InitializationMessage(token, Id[p], "SYN", 1), channel),
              <<>>, NoError)

connectToFrame(p, ch, token) ==
    IF InitializationOngoing(ch)
    THEN Result(ch, "expired", <<>>, <<>>, NoError)
    ELSE LET channel == Channel(token, UNKNOWN_DESTINATION, FALSE, Frame[p], "SYN")
         IN Result(<<channel>>, "pending",
                   postInitializationMessage(p, InitializationMessage(token, Id[p], "SYN", 1), channel),
                   <<>>, NoError)

\* connectToFrame run while the frame element has no contentWindow (it is not
\* in a document yet): the same code, frame.contentWindow being null.
connectToDetachedFrame(p, ch, token) ==
    IF InitializationOngoing(ch)
    THEN Result(ch, "expired", <<>>, <<>>, NoError)
    ELSE LET channel == Channel(token, UNKNOWN_DESTINATION, FALSE, NoWindow, "SYN")
         IN Result(<<channel>>, "pending",
                   postInitializationMessage(p, InitializationMessage(token, Id[p], "SYN", 1), channel),
                   <<>>, NoError)

\* Mutant: the SYN+ACK branch sending the ACK without marking its own channel
\* initialized.
initializeSynAck_NotInitialized(p, ch, iv, message) ==
    IF ~Has(ch, message.token) THEN Result(ch, iv, <<>>, <<>>, NoError)
    ELSE LET channel == Get(ch, message.token)
             updatedOrNewChannel ==
                 Channel(message.token, message.source, FALSE, channel.window, "ACK")
             o == postInitializationMessage(p,
                      InitializationMessage(message.token, Id[p], "ACK", message.frame + 1),
                      updatedOrNewChannel)
         IN Result(MapSet(ch, updatedOrNewChannel),
                   IF Thrown(o) # NoError THEN iv ELSE ClearInterval(iv),
                   o, <<>>, Thrown(o))

\* Mutant: the SYN+ACK branch without clearInterval.
initializeSynAck_KeepsTimer(p, ch, iv, message) ==
    IF ~Has(ch, message.token) THEN Result(ch, iv, <<>>, <<>>, NoError)
    ELSE LET channel == Get(ch, message.token)
             updatedOrNewChannel ==
                 Channel(message.token, message.source, TRUE, channel.window, "ACK")
         IN Result(MapSet(ch, updatedOrNewChannel), iv,
                   postInitializationMessage(p,
                       InitializationMessage(message.token, Id[p], "ACK", message.frame + 1),
                       updatedOrNewChannel),
                   <<>>, NoError)

initializeSynAck(p, ch, iv, message) ==
    IF ~Has(ch, message.token) THEN Result(ch, iv, <<>>, <<>>, NoError)
    ELSE LET channel == Get(ch, message.token)
             updatedOrNewChannel ==
                 Channel(message.token, message.source, TRUE, channel.window, "ACK")
             o == postInitializationMessage(p,
                      InitializationMessage(message.token, Id[p], "ACK", message.frame + 1),
                      updatedOrNewChannel)
         IN Result(MapSet(ch, updatedOrNewChannel),
                   IF Thrown(o) # NoError THEN iv ELSE ClearInterval(iv),
                   o, <<>>, Thrown(o))

\* Mutant: the SYN branch recording the SYN's source as destination.
initializeSyn_RecordsSource(p, ch, iv, event) ==
    LET message == event.data
        updatedOrNewChannel ==
            Channel(message.token, message.source, FALSE, event.source, "SYN+ACK")
        o == postInitializationMessage(p,
                 InitializationMessage(message.token, Id[p], "SYN+ACK", message.frame + 1),
                 updatedOrNewChannel)
    IN Result(MapSet(ch, updatedOrNewChannel), iv, o, <<>>, Thrown(o))

initializeSyn(p, ch, iv, event) ==
    LET message == event.data
        updatedOrNewChannel ==
            Channel(message.token, UNKNOWN_DESTINATION, FALSE, event.source, "SYN+ACK")
        o == postInitializationMessage(p,
                 InitializationMessage(message.token, Id[p], "SYN+ACK", message.frame + 1),
                 updatedOrNewChannel)
    IN Result(MapSet(ch, updatedOrNewChannel), iv, o, <<>>, Thrown(o))

\* Mutant: the ACK branch without the channels.has check.
initializeAck_UnknownCreates(p, ch, iv, message) ==
    LET updatedOrNewChannel ==
            Channel(message.token, message.source, TRUE,
                    IF Has(ch, message.token) THEN Get(ch, message.token).window ELSE NoWindow,
                    "FIN")
    IN Result(MapSet(ch, updatedOrNewChannel), iv, <<>>, <<>>, NoError)

\* Mutant: the ACK branch keeping the destination the channel had.
initializeAck_KeepsDestination(p, ch, iv, message) ==
    IF ~Has(ch, message.token) THEN Result(ch, iv, <<>>, <<>>, NoError)
    ELSE LET channel == Get(ch, message.token)
             updatedOrNewChannel ==
                 Channel(message.token, channel.destination, TRUE, channel.window, "FIN")
         IN Result(MapSet(ch, updatedOrNewChannel), iv, <<>>, <<>>, NoError)

\* Mutant: the ACK branch answering the ACK with a FIN message.
initializeAck_Replies(p, ch, iv, message) ==
    IF ~Has(ch, message.token) THEN Result(ch, iv, <<>>, <<>>, NoError)
    ELSE LET channel == Get(ch, message.token)
             updatedOrNewChannel ==
                 Channel(message.token, message.source, TRUE, channel.window, "FIN")
             o == postInitializationMessage(p,
                      InitializationMessage(message.token, Id[p], "FIN", message.frame + 1),
                      updatedOrNewChannel)
         IN Result(MapSet(ch, updatedOrNewChannel), iv, o, <<>>, Thrown(o))

initializeAck(p, ch, iv, message) ==
    IF ~Has(ch, message.token) THEN Result(ch, iv, <<>>, <<>>, NoError)
    ELSE LET channel == Get(ch, message.token)
             updatedOrNewChannel ==
                 Channel(message.token, message.source, TRUE, channel.window, "FIN")
         IN Result(MapSet(ch, updatedOrNewChannel), iv, <<>>, <<>>, NoError)

initialize(p, ch, iv, event) ==
    LET message == event.data IN
    IF message.state = "SYN+ACK" THEN initializeSynAck(p, ch, iv, message)
    ELSE IF message.state = "SYN" THEN initializeSyn(p, ch, iv, event)
    ELSE IF message.state = "ACK" THEN initializeAck(p, ch, iv, message)
    ELSE Result(ch, iv, <<>>, <<>>, NoError)

RECURSIVE CallEach(_, _, _)
\* handlers.forEach(handler => handler(data)), from index i on: the calls made,
\* the last being the one that threw, if any did.
CallEach(hs, data, i) ==
    IF i > Len(hs) THEN <<>>
    ELSE <<[fn |-> hs[i].fn, data |-> data]>>
         \o (IF HandlerThrows(hs[i].fn) THEN <<>> ELSE CallEach(hs, data, i + 1))

\* Mutant: dispatchEvent without the check that the token has a channel.
dispatchEvent_NoTokenCheck(p, ch, iv, hs, message) ==
    LET c == CallEach(hs, message.data, 1)
    IN Result(ch, iv, <<>>, c,
              IF c # <<>> /\ HandlerThrows(c[Len(c)].fn) THEN HandlerError ELSE NoError)

dispatchEvent(p, ch, iv, hs, message) ==
    IF ~Has(ch, message.token) THEN Result(ch, iv, <<>>, <<>>, NoError)
    ELSE LET c == CallEach(hs, message.data, 1)
         IN Result(ch, iv, <<>>, c,
                   IF c # <<>> /\ HandlerThrows(c[Len(c)].fn) THEN HandlerError ELSE NoError)

\* Mutant: the listener without the origin check.
listener_NoOriginCheck(p, ch, iv, hs, event) ==
    IF event.data = NullData THEN Result(ch, iv, <<>>, <<>>, NoError)
    ELSE IF event.data.state # NoState THEN initialize(p, ch, iv, event)
    ELSE dispatchEvent(p, ch, iv, hs, event.data)

listener(p, ch, iv, hs, event) ==
    IF event.origin # Target[p]
    THEN Result(ch, iv, <<>>, <<>>, "Origin does not match expected target")
    ELSE IF event.data = NullData THEN Result(ch, iv, <<>>, <<>>, NoError)
    ELSE IF event.data.state # NoState THEN initialize(p, ch, iv, event)
    ELSE dispatchEvent(p, ch, iv, hs, event.data)

\* What the constructor leaves behind: whether the listener is subscribed,
\* the retry timer, the error thrown. The registry and the handler table are
\* the empty Maps of the field initializers either way.
Constructed(l, iv, e) == [listening |-> l, interval |-> iv, err |-> e]

\* delayConnectToFrame: the one-shot timer is scheduled.
delayConnectToFrame == "pending"

\* Mutant: the constructor that schedules the bootstrap without a frame too.
constructor_AlwaysSchedules(p, target) ==
    IF target = WILDCARD_TARGET
    THEN Constructed(FALSE, "unset", "Don't use '*' as target.")
    ELSE Constructed(TRUE, delayConnectToFrame, NoError)

\* Mutant: the constructor that checks the target after it has subscribed.
constructor_ChecksLate(p, target) ==
    IF target = WILDCARD_TARGET
    THEN Constructed(TRUE, "unset", "Don't use '*' as target.")
    ELSE Constructed(TRUE,
                     IF Frame[p] # NoWindow THEN delayConnectToFrame ELSE "unset",
                     NoError)

constructor(p, target) ==
    IF target = WILDCARD_TARGET
    THEN Constructed(FALSE, "unset", "Don't use '*' as target.")
    ELSE Constructed(TRUE,
                     IF Frame[p] # NoWindow THEN delayConnectToFrame ELSE "unset",
                     NoError)

\* --------------------------------------------------------------- transport

\* Window w has a service listening: the windows of the instances constructed
\* have, unless other windows post to one instance, which is then taken to be
\* alone.
Listens(w) == w \in listening /\ attacked \in {"", w}

\* The events the window.postMessage calls `o` of instance p raise: one on the
\* target window when that window's origin is the targetOrigin given.
RECURSIVE Raised(_, _)
Raised(p, o) ==
    IF o = <<>> THEN <<>>
    ELSE (IF Listens(o[1].to) /\ WindowOrigin(o[1].to) = o[1].targetOrigin
          THEN <<Event(o[1].to, p, WindowOrigin(p), o[1].data)>>
          ELSE <<>>) \o Raised(p, Tail(o))

\* The events of a sequence, as a set.
Range(evs) == {evs[i] : i \in 1..Len(evs)}

\* The messages in flight after the events evs are queued on the transport n.
Transmit(n, evs) == n \cup Range(evs)

\* Queuing evs on n coalesces two equal messages: one of them is lost.
Coalesces(n, evs) ==
    \/ \E i \in 1..Len(evs) : evs[i] \in n
    \/ \E i, j \in 1..Len(evs) : i # j /\ evs[i] = evs[j]

\* Apply the result r of a method of instance p, on the transport n; rel tells
\* whether the transport has been reliable up to and including this step.
Apply(p, r, n, rel, step) ==
    /\ channels' = [channels EXCEPT ![p] = r.channels]
    /\ interval' = [interval EXCEPT ![p] = r.interval]
    /\ out' = r.out
    /\ calls' = r.calls
    /\ net' = Transmit(n, Raised(p, r.out))
    /\ reliable' = (rel /\ ~Coalesces(n, Raised(p, r.out)))
    /\ discarded' = [discarded EXCEPT ![p] = (@ \cup KeysOf(channels[p])) \ KeysOf(r.channels)]
    /\ last' = step

\* ----------------------------------------------------------------- actions

Init ==
    /\ channels = [p \in Instances |-> <<>>]
    /\ handlers = [p \in Instances |-> <<>>]
    /\ interval = [p \in Instances |-> IF Frame[p] # NoWindow THEN "pending" ELSE "unset"]
    /\ net = {}
    /\ last = Step("construct", "", NoEvent, "", NoError)
    /\ out = <<>>
    /\ calls = <<>>
    /\ reliable = TRUE
    /\ attacked = ""
    /\ listening = Instances
    /\ discarded = [p \in Instances |-> {}]
    /\ attempts = [p \in Instances |-> 0]

\* Nothing constructed yet: no listener, no timer.
InitNew ==
    /\ channels = [p \in Instances |-> <<>>]
    /\ handlers = [p \in Instances |-> <<>>]
    /\ interval = [p \in Instances |-> "unset"]
    /\ net = {}
    /\ last = Step("", "", NoEvent, "", NoError)
    /\ out = <<>>
    /\ calls = <<>>
    /\ reliable = TRUE
    /\ attacked = ""
    /\ listening = {}
    /\ discarded = [p \in Instances |-> {}]
    /\ attempts = [p \in Instances |-> 0]

\* new MessagingService(target, frame, id) in the window of p, which has no
\* instance yet.
Construct(p, target) ==
    /\ p \notin listening
    /\ LET r == constructor(p, target)
       IN /\ listening' = IF r.listening THEN listening \cup {p} ELSE listening
          /\ interval' = [interval EXCEPT ![p] = r.interval]
          /\ last' = Step("constructor", p, NoEvent, target, r.err)
    /\ out' = <<>>
    /\ calls' = <<>>
    /\ UNCHANGED <<channels, handlers, net, reliable, attacked, discarded, attempts>>

\* The retry timer of p fires; token is what GetRandomNumber() returns.
ConnectToFrame(p, token) ==
    /\ interval[p] = "pending"
    /\ LET r == connectToFrame(p, channels[p], token)
       IN /\ Apply(p, r, net, reliable, BootstrapStep(p, token, Frame[p], r.err))
          /\ attempts' = [attempts EXCEPT ![p] =
                 IF InitializationOngoing(channels[p]) THEN @ ELSE IF @ = 0 THEN 1 ELSE 2]
    /\ UNCHANGED <<handlers, attacked, listening>>

\* The retry timer of the Initiator p fires while its frame element has no
\* contentWindow.
ConnectToDetachedFrame(p, token) ==
    /\ interval[p] = "pending"
    /\ Frame[p] # NoWindow
    /\ LET r == connectToDetachedFrame(p, channels[p], token)
       IN Apply(p, r, net, reliable, BootstrapStep(p, token, NoWindow, r.err))
    /\ UNCHANGED <<handlers, attacked, listening, attempts>>

\* The timer callback of p that was already due when clearInterval was called
\* runs all the same; the cancelled timer stays cancelled unless the callback
\* schedules a new one.
DueCallback(p, token) ==
    /\ interval[p] = "cancelled"
    /\ LET r == connectToFrame(p, channels[p], token)
           rr == [r EXCEPT !.interval = IF @ = "expired" THEN "cancelled" ELSE @]
       IN /\ Apply(p, rr, net, reliable, BootstrapStep(p, token, Frame[p], r.err))
          /\ attempts' = [attempts EXCEPT ![p] =
                 IF InitializationOngoing(channels[p]) THEN @ ELSE IF @ = 0 THEN 1 ELSE 2]
    /\ UNCHANGED <<handlers, attacked, listening>>

\* The message event ev is raised on its window and the listener runs;
\* n is what stays in flight.
Handle(ev, n, rel) ==
    LET p == ev.to
        r == listener(p, channels[p], interval[p], handlers[p], ev)
    IN /\ Apply(p, r, n, rel, Step("listener", p, ev, "", r.err))
       /\ UNCHANGED <<handlers, listening, attempts>>

\* The transport delivers a message in flight to its window.
Deliver(ev) ==
    /\ ev \in net
    /\ Handle(ev, net \ {ev}, reliable)
    /\ UNCHANGED attacked

\* The transport delivers a message and keeps a copy of it in flight.
Duplicate(ev) ==
    /\ ev \in net
    /\ Handle(ev, net, FALSE)
    /\ UNCHANGED attacked

\* The transport loses a message in flight.
Lose(ev) ==
    /\ ev \in net
    /\ net' = net \ {ev}
    /\ reliable' = FALSE
    /\ last' = Step("lose", "", NoEvent, "", NoError)
    /\ out' = <<>>
    /\ calls' = <<>>
    /\ UNCHANGED <<channels, handlers, interval, attacked, listening, discarded, attempts>>

\* A window other than the two instances' posts an event to an instance's
\* window; in one behaviour it is one and the same instance they post to.
Inject(ev) ==
    /\ attacked \in {"", ev.to}
    /\ attacked' = ev.to
    /\ Handle(ev, net, reliable)

PostMessage(p, data) ==
    /\ LET r == postMessage(p, channels[p], interval[p], data)
       IN Apply(p, r, net, reliable, Step("postMessage", p, NoEvent, data, r.err))
    /\ UNCHANGED <<handlers, attacked, listening, attempts>>

\* handlerId is what parseInt(GetRandomNumber()) returns.
AddMessageHandler(p, fn, handlerId) ==
    /\ handlers' = [handlers EXCEPT ![p] = SetHandler(handlers[p], handlerId, fn)]
    /\ last' = HandlerStep("addMessageHandler", p, fn, handlerId)
    /\ out' = <<>>
    /\ calls' = <<>>
    /\ UNCHANGED <<channels, interval, net, reliable, attacked, listening,
                   discarded, attempts>>

RemoveMessageHandler(p, handlerId) ==
    /\ handlers' = [handlers EXCEPT ![p] = DeleteHandler(handlers[p], handlerId)]
    /\ last' = HandlerStep("removeMessageHandler", p, "", handlerId)
    /\ out' = <<>>
    /\ calls' = <<>>
    /\ UNCHANGED <<channels, interval, net, reliable, attacked, listening,
                   discarded, attempts>>

\* The handshake and application messages a foreign window may post.
InjectedData ==
    {InitializationMessage(t, src, st, 1) : t \in TokenPool, src \in {"Z"}, st \in States}
    \cup {ChannelMessage(t, d) : t \in TokenPool, d \in Payloads}
    \cup {NullData}
InjectedEvents ==
    {Event(p, w, o, d) : p \in Instances, w \in {OtherWindow},
                         o \in {PageOrigin, ForeignOrigin}, d \in InjectedData}

\* Two instances over a transport that loses, duplicates and reorders.
Next ==
    \/ \E p \in Instances, token \in TokenPool : ConnectToFrame(p, token)
    \/ \E ev \in net : Deliver(ev)
    \/ \E ev \in net : Duplicate(ev)
    \/ \E ev \in net : Lose(ev)
    \/ \E p \in Instances, data \in Payloads : PostMessage(p, data)

Spec == Init /\ [][Next]_vars

\* Two instances and their applications' handlers, over a transport that
\* delivers every message once, in any order.
NextApp ==
    \/ \E p \in Instances, token \in TokenPool : ConnectToFrame(p, token)
    \/ \E ev \in net : Deliver(ev)
    \/ \E p \in Instances, data \in Payloads : PostMessage(p, data)
    \/ \E p \in Instances : AddMessageHandler(p, "h1", 1)
    \/ \E p \in Instances : RemoveMessageHandler(p, 1)

SpecApp == Init /\ [][NextApp]_vars

\* One instance, its timer and its application, with other windows free to
\* post any sequence of events to it (their first event picks the instance).
NextOpen ==
    \/ \E p \in Instances \cap {attacked}, token \in TokenPool : ConnectToFrame(p, token)
    \/ \E ev \in InjectedEvents : Inject(ev)
    \/ \E p \in Instances \cap {attacked}, data \in Payloads : PostMessage(p, data)
    \/ \E p \in Instances \cap {attacked} : AddMessageHandler(p, "h1", 1)
    \/ \E p \in Instances \cap {attacked} : RemoveMessageHandler(p, 1)

SpecOpen == Init /\ [][NextOpen]_vars

\* The two windows from before either instance is constructed, each
\* construction given the configured target or the wildcard, over a transport
\* that delivers every message once.
NextNew ==
    \/ \E p \in Instances : \E target \in {Target[p], WILDCARD_TARGET} : Construct(p, target)
    \/ \E p \in Instances, token \in TokenPool : ConnectToFrame(p, token)
    \/ \E ev \in net : Deliver(ev)
    \/ \E p \in listening, data \in Payloads : PostMessage(p, data)

SpecNew == InitNew /\ [][NextNew]_vars

\* The events of one page-origin sender that opens channels and posts
\* application messages.
HandlerEvents ==
    {Event(p, OtherWindow, PageOrigin, d) :
        p \in Instances,
        d \in {InitializationMessage(t, "Z", "SYN", 1) : t \in TokenPool}
              \cup {ChannelMessage(t, x) : t \in TokenPool, x \in Payloads}}

\* One instance alone and its application, which adds and removes handlers
\* under any ids, while a page-origin sender opens channels and posts
\* application messages to it.
NextHandlers ==
    \/ \E ev \in HandlerEvents : Inject(ev)
    \/ \E p \in Instances \cap {attacked}, fn \in Callbacks, handlerId \in HandlerIds :
          AddMessageHandler(p, fn, handlerId)
    \/ \E p \in Instances \cap {attacked}, handlerId \in HandlerIds :
          RemoveMessageHandler(p, handlerId)

SpecHandlers == Init /\ [][NextHandlers]_vars

\* The handshake events of page-origin peers, some of them reachable only
\* through a handle whose postMessage throws.
FanOutEvents ==
    {Event(p, w, PageOrigin, InitializationMessage(t, "Z", st, 1)) :
        p \in Instances, w \in {OtherWindow, BrokenWindow},
        t \in TokenPool, st \in {"SYN", "ACK"}}

\* One instance alone, to which page-origin peers open channels, and whose
\* application posts payloads to them.
NextFanOut ==
    \/ \E ev \in FanOutEvents : Inject(ev)
    \/ \E p \in Instances \cap {attacked}, data \in Payloads : PostMessage(p, data)

SpecFanOut == Init /\ [][NextFanOut]_vars

\* The handshake of the two instances over a transport that reorders and
\* duplicates, with the timer callback free to run after the timer was
\* cancelled.
NextRace ==
    \/ \E p \in Instances, token \in TokenPool : ConnectToFrame(p, token)
    \/ \E ev \in net : Deliver(ev)
    \/ \E ev \in net : Duplicate(ev)
    \/ \E p \in Instances, token \in TokenPool : DueCallback(p, token)

SpecRace == Init /\ [][NextRace]_vars

\* The two instances over a transport that delivers every message once, the
\* Initiator's frame element being without contentWindow at some firings of
\* the timer.
NextDetached ==
    \/ \E p \in Instances, token \in TokenPool : ConnectToFrame(p, token)
    \/ \E p \in Instances, token \in TokenPool : ConnectToDetachedFrame(p, token)
    \/ \E ev \in net : Deliver(ev)
    \/ \E p \in Instances, data \in Payloads : PostMessage(p, data)

SpecDetached == Init /\ [][NextDetached]_vars

\* The handshake of the two instances over a transport that loses nothing
\* and delivers every message once: any message left in flight is eventually
\* delivered, and a scheduled timer eventually fires.
NextFair ==
    \/ \E p \in Instances, token \in TokenPool : ConnectToFrame(p, token)
    \/ \E ev \in net : Deliver(ev)

\* The handshake messages the two instances can send each other.
HandshakeEvents ==
    {Event(IF p = "W" THEN "F" ELSE "W", p, PageOrigin,
           InitializationMessage(t, Id[p], st, fr)) :
        p \in Instances, t \in TokenPool, st \in {"SYN", "SYN+ACK", "ACK"}, fr \in 1..3}

SpecFair ==
    /\ Init
    /\ [][NextFair]_vars
    /\ \A ev \in HandshakeEvents : WF_vars(Deliver(ev))
    /\ \A p \in Instances : WF_vars(\E token \in TokenPool : ConnectToFrame(p, token))

\* ------------------------------------------------------------ properties

Peer(p) == IF p = "W" THEN "F" ELSE "W"
Initialized(p) == AtLeastOneInitializedChannel(channels[p])
BothInitialized == Initialized("W") /\ Initialized("F")

\* The last step was the listener of some instance accepting the origin of an
\* event that carries handshake state st.
Handled(st) ==
    /\ last.op = "listener"
    /\ last.err = NoError
    /\ last.event.data.state = st

\* The frame number the handshake gives a message of each state.
FrameOf(st) == IF st = "SYN" THEN 1 ELSE IF st = "SYN+ACK" THEN 2 ELSE 3

\* The handshake message m belongs to the exchange on W's only channel.
OfTheExchange(m) ==
    /\ m.token = channels["W"][1].token
    /\ m.frame = FrameOf(m.state)
    /\ m.source = IF m.state = "SYN+ACK" THEN Id["F"] ELSE Id["W"]

\* C1: full handshake. While the transport has been reliable and the
\* Initiator has sent a single SYN (no retry), every handshake message in
\* flight or just delivered carries the token of the Initiator's channel and
\* frame 1 (SYN), 2 (SYN+ACK) or 3 (ACK); once the SYN+ACK is handled the
\* Initiator's channel is initialized with destination B and its timer is
\* cancelled; once the ACK is handled each registry holds exactly one channel,
\* for the same token, initialized, with destination B on the Initiator and A
\* on the Responder.
C1_FullHandshake ==
    (reliable /\ attempts["W"] = 1) =>
        /\ Len(channels["W"]) = 1
        /\ \A ev \in net : ev.data.state # NoState => OfTheExchange(ev.data)
        /\ (last.op = "listener" /\ last.event.data.state # NoState)
              => OfTheExchange(last.event.data)
        /\ Initialized("W") =>
              /\ channels["W"][1].destination = Id["F"]
              /\ interval["W"] = "cancelled"
        /\ Initialized("F") =>
              /\ Len(channels["F"]) = 1
              /\ channels["F"][1].token = channels["W"][1].token
              /\ channels["F"][1].initialized
              /\ channels["F"][1].destination = Id["W"]
              /\ channels["W"][1].initialized
              /\ channels["W"][1].destination = Id["F"]
              /\ interval["W"] = "cancelled"

\* C1 witness: the ACK with frame 3 has just been handled by the Responder,
\* after a single SYN and over a transport that delivered each message once.
C1_Witness ==
    /\ reliable
    /\ attempts["W"] = 1
    /\ Handled("ACK")
    /\ last.inst = "F"
    /\ last.event.data.frame = 3
    /\ BothInitialized

\* C2: application round trip. Once both sides hold an initialized channel
\* and while the transport is reliable, a postMessage(d) on either side sends
\* exactly one application message, to the peer, under a token the peer has a
\* channel for; and the peer's listener, handling an application message of the
\* other side, invokes every handler registered on it once with the data.
C2_RoundTrip ==
    [][/\ (last'.op = "postMessage" /\ BothInitialized /\ reliable') =>
             LET p == last'.inst IN
             /\ last'.err = NoError
             /\ Len(out') = 1
             /\ out'[1].to = Peer(p)
             /\ out'[1].data = ChannelMessage(out'[1].data.token, last'.arg)
             /\ Has(channels[Peer(p)], out'[1].data.token)
             /\ Event(Peer(p), p, PageOrigin, out'[1].data) \in net'
       /\ (/\ last'.op = "listener"
           /\ BothInitialized
           /\ last'.event.data.state = NoState
           /\ last'.event.data # NullData) =>
             LET p == last'.inst IN
             calls' = [i \in 1..Len(handlers[p]) |->
                          [fn |-> handlers[p][i].fn, data |-> last'.event.data.data]]
      ]_vars

\* C2 witness: the Responder, which holds a channel of an abandoned attempt
\* besides the initialized one, has just handed an application message of the
\* Initiator to its handler, once.
C2_Witness ==
    /\ reliable
    /\ BothInitialized
    /\ last.op = "listener"
    /\ last.inst = "F"
    /\ last.event.data = ChannelMessage(last.event.data.token, "d1")
    /\ Len(channels["F"]) = 2
    /\ Len(handlers["F"]) = 1
    /\ calls = <<[fn |-> handlers["F"][1].fn, data |-> "d1"]>>

\* A failed postMessage leaves everything as it was and sends nothing.
PostMessageDidNothing ==
    /\ out' = <<>>
    /\ net' = net
    /\ channels' = channels
    /\ handlers' = handlers

\* C3: postMessage throws "No channel." on an empty registry and "No channel
\* initialized" on a registry with no initialized channel, and in both cases
\* sends nothing and leaves the registry and the handler table unchanged.
C3_PostMessageFails ==
    [][last'.op = "postMessage" =>
          LET ch == channels[last'.inst] IN
          /\ Len(ch) = 0 =>
                (last'.err = "No channel." /\ PostMessageDidNothing)
          /\ (Len(ch) > 0 /\ ~AtLeastOneInitializedChannel(ch)) =>
                (last'.err = "No channel initialized" /\ PostMessageDidNothing)
      ]_vars

\* C3 witness: postMessage has just failed on an instance that has a handler
\* and a channel, none initialized.
C3_Witness ==
    /\ last.op = "postMessage"
    /\ last.err = "No channel initialized"
    /\ Len(channels[last.inst]) > 0
    /\ Len(handlers[last.inst]) > 0
    /\ out = <<>>

\* C4: with at least one channel initialized, postMessage(payload) makes one
\* window.postMessage call per initialized channel, to that channel's window,
\* with {token: the channel's token, data: payload}, and none for a channel
\* that is not initialized.
C4_PostToInitialized ==
    [][(last'.op = "postMessage" /\ AtLeastOneInitializedChannel(channels[last'.inst])) =>
          LET p == last'.inst
              ch == channels[p]
          IN /\ last'.err = NoError
             /\ \A i \in 1..Len(ch) :
                   Cardinality({j \in 1..Len(out') : out'[j].data.token = ch[i].token})
                      = IF ch[i].initialized THEN 1 ELSE 0
             /\ \A j \in 1..Len(out') : \E i \in 1..Len(ch) :
                   /\ ch[i].initialized
                   /\ out'[j] = [to |-> ch[i].window, targetOrigin |-> Target[p],
                                 data |-> ChannelMessage(ch[i].token, last'.arg)]
      ]_vars

\* C4 witness: postMessage has just succeeded on an instance that holds an
\* initialized channel and one that is not, and made a single call.
C4_Witness ==
    /\ last.op = "postMessage"
    /\ last.err = NoError
    /\ \E i, j \in 1..Len(channels[last.inst]) :
          channels[last.inst][i].initialized /\ ~channels[last.inst][j].initialized
    /\ Len(out) = 1

\* C5: the initialized flag of the channel registered under a token is
\* monotonic: once true, no step leaves the token registered with
\* initialized = false.
C5_InitializedMonotonic ==
    [][\A p \in Instances, t \in Tokens :
          (Has(channels[p], t) /\ Get(channels[p], t).initialized /\ Has(channels'[p], t))
             => Get(channels'[p], t).initialized
      ]_vars

\* C6: a SYN+ACK or an ACK for a token whose channel is already initialized
\* changes nothing in the registry and sends no message.
C6_InitializedIgnores ==
    [][(/\ last'.op = "listener"
        /\ last'.err = NoError
        /\ last'.event.data.state \in {"SYN+ACK", "ACK"}
        /\ Has(channels[last'.inst], last'.event.data.token)
        /\ Get(channels[last'.inst], last'.event.data.token).initialized) =>
          (channels' = channels /\ out' = <<>>)
      ]_vars

\* C7: a SYN+ACK or an ACK for a token with no entry in the registry leaves
\* the registry, the handler table and the retry timer unchanged, sends no
\* message, invokes no handler and raises no error.
C7_UnknownTokenIgnored ==
    [][(/\ last'.op = "listener"
        /\ last'.event.origin = Target[last'.inst]
        /\ last'.event.data.state \in {"SYN+ACK", "ACK"}
        /\ ~Has(channels[last'.inst], last'.event.data.token)) =>
          /\ channels' = channels
          /\ handlers' = handlers
          /\ interval' = interval
          /\ out' = <<>>
          /\ net' = net
          /\ calls' = <<>>
          /\ last'.err = NoError
      ]_vars

\* C7 witness: an instance with a pending retry timer, a handler and a channel
\* has just handled a SYN+ACK for a token it has no channel for.
C7_Witness ==
    /\ Handled("SYN+ACK")
    /\ ~Has(channels[last.inst], last.event.data.token)
    /\ Len(channels[last.inst]) > 0
    /\ Len(handlers[last.inst]) > 0
    /\ interval[last.inst] = "pending"

\* C8: retry before reply. A bootstrap that fires while the registry holds
\* only channels still in state SYN leaves exactly one channel, the new one,
\* in the registry; and a SYN+ACK for a token the instance has discarded
\* changes nothing in the registry, triggers no ACK and leaves the retry
\* timer as it was.
C8_RetryBeforeReply ==
    [][/\ (/\ last'.op = "connectToFrame"
           /\ Len(channels[last'.inst]) > 0
           /\ ~InitializationOngoing(channels[last'.inst])) =>
             LET p == last'.inst IN
             channels'[p] = <<Channel(last'.arg, UNKNOWN_DESTINATION, FALSE, Frame[p], "SYN")>>
       /\ (/\ last'.op = "listener"
           /\ last'.err = NoError
           /\ last'.event.data.state = "SYN+ACK"
           /\ last'.event.data.token \in discarded[last'.inst]) =>
             /\ channels' = channels
             /\ out' = <<>>
             /\ interval' = interval
      ]_vars

\* C8 witness: the Initiator, after a retry that replaced the token, has just
\* handled the SYN+ACK of the discarded token: its only channel is still
\* waiting in state SYN and its retry timer is still pending.
C8_Witness ==
    /\ Handled("SYN+ACK")
    /\ last.inst = "W"
    /\ last.event.data.token \in discarded["W"]
    /\ Len(channels["W"]) = 1
    /\ channels["W"][1].state = "SYN"
    /\ channels["W"][1].token # last.event.data.token
    /\ ~Initialized("W")
    /\ interval["W"] = "pending"
    /\ out = <<>>

\* C9: message loss is tolerated, stated on the states in which nothing more
\* can happen to the handshake: once no message is in flight and the
\* Initiator's retry timer is not pending, both sides hold an initialized
\* channel.
C9_LossTolerated ==
    (net = {} /\ interval["W"] # "pending") => BothInitialized

\* C10: an event whose origin is not the target origin makes the listener throw
\* and reaches neither the handshake nor the dispatch: the registry, the timer
\* and the handler table are unchanged, no handler is invoked, nothing is sent.
C10_OriginMismatch ==
    [][(last'.op = "listener" /\ last'.event.origin # Target[last'.inst]) =>
          /\ last'.err = "Origin does not match expected target"
          /\ channels' = channels
          /\ interval' = interval
          /\ handlers' = handlers
          /\ calls' = <<>>
          /\ out' = <<>>
          /\ net' = net
      ]_vars

\* C10 witness: the listener has just thrown on a foreign-origin application
\* message whose token has a channel, on an instance that has a handler.
C10_Witness ==
    /\ last.op = "listener"
    /\ last.event.origin = ForeignOrigin
    /\ last.err = "Origin does not match expected target"
    /\ last.event.data.state = NoState
    /\ Has(channels[last.inst], last.event.data.token)
    /\ Len(handlers[last.inst]) > 0
    /\ calls = <<>>

\* C11: constructing a MessagingService with the target "*" throws, and leaves
\* no channel, no subscription to the window's messages and no retry timer:
\* nothing of the instance or of the transport changes.
C11_WildcardRejected ==
    [][(last'.op = "constructor" /\ last'.arg = WILDCARD_TARGET) =>
          LET p == last'.inst IN
          /\ last'.err = "Don't use '*' as target."
          /\ channels'[p] = <<>>
          /\ p \notin listening'
          /\ interval'[p] = "unset"
          /\ handlers'[p] = <<>>
          /\ out' = <<>>
          /\ net' = net
      ]_vars

\* C11 witness: the construction of the main window's service with "*" has
\* just failed, while the frame's service is listening: the main window has
\* no listener and no timer, and nothing is in flight.
C11_Witness ==
    /\ last.op = "constructor"
    /\ last.inst = "W"
    /\ last.arg = WILDCARD_TARGET
    /\ last.err = "Don't use '*' as target."
    /\ listening = {"F"}
    /\ interval["W"] = "unset"
    /\ channels["W"] = <<>>
    /\ net = {}

\* The last step was the listener accepting the origin of an application
\* message.
Dispatched ==
    /\ last.op = "listener"
    /\ last.event.origin = Target[last.inst]
    /\ last.event.data.state = NoState
    /\ last.event.data # NullData

\* The calls that hand data to every handler of the table hs, once each.
EveryHandler(hs, data) == [i \in 1..Len(hs) |-> [fn |-> hs[i].fn, data |-> data]]
NoneThrows(hs) == \A i \in 1..Len(hs) : ~HandlerThrows(hs[i].fn)

\* C12: an application message whose token has no channel invokes no handler,
\* changes nothing (registry, handler table, timer, messages in flight) and
\* raises no error; one whose token has a channel is handed once to every
\* registered handler (the handlers being ones that return) and changes
\* nothing in the registry.
C12_DispatchByToken ==
    [][Dispatched' =>
          LET p == last'.inst
              message == last'.event.data
          IN /\ ~Has(channels[p], message.token) =>
                   /\ calls' = <<>>
                   /\ channels' = channels
                   /\ handlers' = handlers
                   /\ interval' = interval
                   /\ out' = <<>>
                   /\ net' = net
                   /\ last'.err = NoError
             /\ (Has(channels[p], message.token) /\ NoneThrows(handlers[p])) =>
                   /\ calls' = EveryHandler(handlers[p], message.data)
                   /\ channels' = channels
                   /\ last'.err = NoError
      ]_vars

\* C12 witness: an instance with two handlers and a channel has just dropped
\* an application message whose token it has no channel for.
C12_Witness ==
    /\ Dispatched
    /\ ~Has(channels[last.inst], last.event.data.token)
    /\ Len(channels[last.inst]) > 0
    /\ Len(handlers[last.inst]) = 2
    /\ NoneThrows(handlers[last.inst])
    /\ calls = <<>>
    /\ last.err = NoError

\* The entries of the handler table hs, as a set.
Registered(hs) == {hs[i] : i \in 1..Len(hs)}

\* C13: the handler table under any sequence of addMessageHandler and
\* removeMessageHandler calls. Adding registers the handler under the id
\* returned and unregisters none added earlier; removing the id returned for a
\* handler unregisters that handler and no other; removing an unknown id
\* changes nothing; and a dispatched application message is handed to every
\* handler added and not removed since (the handlers being ones that return).
C13_HandlerTable ==
    [][LET p == last'.inst IN
       /\ last'.op = "addMessageHandler" =>
             Registered(handlers'[p]) =
                Registered(handlers[p]) \cup {[id |-> last'.id, fn |-> last'.arg]}
       /\ last'.op = "removeMessageHandler" =>
             /\ Registered(handlers'[p]) =
                   {e \in Registered(handlers[p]) : e.id # last'.id}
             /\ ~HasHandler(handlers[p], last'.id) => handlers' = handlers
       /\ (/\ Dispatched'
           /\ Has(channels[p], last'.event.data.token)
           /\ NoneThrows(handlers[p])) =>
             \A e \in Registered(handlers[p]) :
                \E i \in 1..Len(calls') : calls'[i] = [fn |-> e.fn, data |-> last'.event.data.data]
      ]_vars

\* C14: when an application message is dispatched to several handlers and
\* one of them throws, every other registered handler is still called with the
\* message's data.
C14_HandlerFailureIsolated ==
    [][(/\ Dispatched'
        /\ Has(channels[last'.inst], last'.event.data.token)
        /\ ~NoneThrows(handlers[last'.inst])) =>
          LET hs == handlers[last'.inst] IN
          \A i \in 1..Len(hs) :
             ~HandlerThrows(hs[i].fn) =>
                \E j \in 1..Len(calls') :
                   calls'[j] = [fn |-> hs[i].fn, data |-> last'.event.data.data]
      ]_vars

\* C15: when postMessage fans a payload out to several initialized channels
\* and the send on one of them throws, the payload is still sent on every
\* other initialized channel.
C15_SendFailureIsolated ==
    [][(/\ last'.op = "postMessage"
        /\ \E i \in 1..Len(channels[last'.inst]) :
              /\ channels[last'.inst][i].initialized
              /\ SendThrows(channels[last'.inst][i].window)) =>
          LET p == last'.inst
              ch == channels[p]
          IN \A i \in 1..Len(ch) :
                (ch[i].initialized /\ ~SendThrows(ch[i].window)) =>
                   \E j \in 1..Len(out') :
                      out'[j] = [to |-> ch[i].window, targetOrigin |-> Target[p],
                                 data |-> ChannelMessage(ch[i].token, last'.arg)]
      ]_vars

\* C16: for an instance that bootstraps, in every state reached the retry
\* timer is scheduled if and only if none of its channels is initialized; and
\* the timer is cancelled only by a step that takes the instance from no
\* initialized channel to an initialized one (hence once).
C16_TimerLiveIffUninitialized ==
    [][\A p \in Instances :
          Frame[p] # NoWindow =>
             /\ (interval'[p] = "pending") <=> ~AtLeastOneInitializedChannel(channels'[p])
             /\ (interval[p] # "cancelled" /\ interval'[p] = "cancelled") =>
                   /\ ~AtLeastOneInitializedChannel(channels[p])
                   /\ AtLeastOneInitializedChannel(channels'[p])
      ]_vars

\* The instance p has accepted a SYN+ACK: one of its channels is in state ACK.
Accepted(p) == \E i \in 1..Len(channels[p]) :
                  channels[p][i].state = "ACK" /\ channels[p][i].initialized

\* C17: from the step in which an instance accepts a SYN+ACK and initializes
\* a channel on, in every later step the instance still holds that accepted
\* channel, its registry holds the same tokens (the bootstrap neither clears
\* nor replaces it), and it sends no SYN; a timer callback that runs after the
\* cancellation changes nothing and sends nothing.
C17_NoBootstrapAfterAccept ==
    [][\A p \in Instances :
          Accepted(p) =>
             /\ Accepted(p)'
             /\ KeysOf(channels'[p]) = KeysOf(channels[p])
             /\ last'.inst = p =>
                   \A j \in 1..Len(out') : out'[j].data.state # "SYN"
             /\ (last'.op = "connectToFrame" /\ last'.inst = p) =>
                   (channels'[p] = channels[p] /\ out' = <<>> /\ interval'[p] = interval[p])
      ]_vars

\* C17 witness: the Initiator's timer callback has just run although the
\* timer was cancelled when the SYN+ACK was accepted: the accepted channel is
\* still the only one and nothing was sent.
C17_Witness ==
    /\ last.op = "connectToFrame"
    /\ last.inst = "W"
    /\ interval["W"] = "cancelled"
    /\ Accepted("W")
    /\ Len(channels["W"]) = 1
    /\ out = <<>>

\* The registry after a step of p differs from the one before at most in the
\* entry for token t, of which it holds exactly one.
OnlyEntryChanged(p, t) ==
    /\ Cardinality({i \in 1..Len(channels'[p]) : channels'[p][i].token = t}) = 1
    /\ \A u \in KeysOf(channels[p]) \ {t} :
          Has(channels'[p], u) /\ Get(channels'[p], u) = Get(channels[p], u)
    /\ KeysOf(channels'[p]) = KeysOf(channels[p]) \cup {t}

C19_SynAnsweredAndRetryKept ==
    [][/\ Handled("SYN")' =>
             LET p == last'.inst
                 message == last'.event.data
             IN /\ out' = <<[to |-> last'.event.source, targetOrigin |-> Target[p],
                             data |-> InitializationMessage(message.token, Id[p], "SYN+ACK",
                                                            message.frame + 1)]>>
                /\ interval' = interval
       /\ (/\ last'.op = "connectToFrame"
           /\ ~AtLeastOneInitializedChannel(channels[last'.inst])) =>
             /\ Len(out') = 1
             /\ out'[1].data.state = "SYN"
             /\ interval'[last'.inst] = "pending"
      ]_vars

\* C20: an ACK for a token whose channel exists and is not initialized sets
\* the channel's destination to the ACK's source and initialized to true,
\* keeps its token and peer handle and leaves the other channels alone; and no
\* handled ACK, whatever the registry, makes the instance send a message.
C20_AckCompletes ==
    [][Handled("ACK")' =>
          LET p == last'.inst
              message == last'.event.data
          IN /\ out' = <<>>
             /\ net' \subseteq net
             /\ (/\ Has(channels[p], message.token)
                 /\ ~Get(channels[p], message.token).initialized) =>
                   /\ OnlyEntryChanged(p, message.token)
                   /\ Get(channels'[p], message.token).token = message.token
                   /\ Get(channels'[p], message.token).destination = message.source
                   /\ Get(channels'[p], message.token).initialized
                   /\ Get(channels'[p], message.token).window =
                         Get(channels[p], message.token).window
      ]_vars

\* C20 witness: over a transport that delivered every message once and after
\* a single SYN, the Responder has just handled the ACK: its channel, until
\* then waiting in state SYN+ACK, is initialized with the Initiator's id, and
\* nothing was sent or is in flight.
C20_Witness ==
    /\ reliable
    /\ attempts["W"] = 1
    /\ Handled("ACK")
    /\ last.inst = "F"
    /\ channels["F"] = <<Channel(last.event.data.token, Id["W"], TRUE, "W", "FIN")>>
    /\ out = <<>>
    /\ net = {}

\* C21: when the bootstrap timer of an Initiator fires and no channel of the
\* registry (which may be empty) has left state SYN, the registry is left with
\* exactly one channel: the token just drawn, state SYN, not initialized,
\* destination unknown, the frame's window as peer handle; exactly one SYN
\* {own id, that token, frame 1} is sent to the frame's window; and the timer
\* is scheduled again. When some channel has left state SYN, the firing
\* changes neither the registry nor the handler table and sends nothing.
C21_BootstrapAttempt ==
    [][last'.op = "connectToFrame" =>
          LET p == last'.inst
              token == last'.arg
          IN /\ ~InitializationOngoing(channels[p]) =>
                   /\ channels'[p] =
                         <<Channel(token, UNKNOWN_DESTINATION, FALSE, Frame[p], "SYN")>>
                   /\ out' = <<[to |-> Frame[p], targetOrigin |-> Target[p],
                                data |-> InitializationMessage(token, Id[p], "SYN", 1)]>>
                   /\ interval'[p] = "pending"
                   /\ last'.err = NoError
             /\ InitializationOngoing(channels[p]) =>
                   /\ channels' = channels
                   /\ handlers' = handlers
                   /\ out' = <<>>
                   /\ net' = net
                   /\ last'.err = NoError
      ]_vars

\* C21 witness: the Initiator's timer has just fired again with only an
\* unanswered SYN channel in the registry: the earlier token is discarded, the
\* new channel is the only one, one SYN went out and the timer is scheduled.
C21_Witness ==
    /\ last.op = "connectToFrame"
    /\ last.inst = "W"
    /\ discarded["W"] # {}
    /\ channels["W"] = <<Channel(last.arg, UNKNOWN_DESTINATION, FALSE, "F", "SYN")>>
    /\ Len(out) = 1
    /\ interval["W"] = "pending"

\* The channels of the registry ch that await their first reply.
AwaitingFirstReply(ch) == {i \in 1..Len(ch) : ch[i].state = "SYN" /\ ~ch[i].initialized}

\* C22: in every state, the registry of an instance that initiates
\* handshakes holds at most one channel awaiting its first reply (state SYN,
\* not initialized), however often its timer has fired.
C22_OneAwaitingChannel ==
    \A p \in Instances :
       Frame[p] # NoWindow => Cardinality(AwaitingFirstReply(channels[p])) <= 1

\* C22 witness: the Initiator's timer has fired more than once and sent more
\* than one SYN, the Responder has answered an earlier one, and the
\* Initiator's registry holds one channel, awaiting its first reply.
C22_Witness ==
    /\ attempts["W"] = 2
    /\ Len(channels["F"]) = 2
    /\ Len(channels["W"]) = 1
    /\ Cardinality(AwaitingFirstReply(channels["W"])) = 1

\* C23: in every state, every initialized channel has a destination other
\* than UNKNOWN_DESTINATION (no party has that value as its id).
C23_InitializedHasDestination ==
    \A p \in Instances : \A i \in 1..Len(channels[p]) :
       channels[p][i].initialized => channels[p][i].destination # UNKNOWN_DESTINATION

\* C23 witness: an instance has just handled the ACK for a channel it had
\* created, with unknown destination, on a SYN: the channel is initialized and
\* its destination is the id the ACK carries.
C23_Witness ==
    /\ Handled("ACK")
    /\ Has(channels[last.inst], last.event.data.token)
    /\ Get(channels[last.inst], last.event.data.token) =
          Channel(last.event.data.token, last.event.data.source, TRUE, OtherWindow, "FIN")
    /\ last.event.data.source # UNKNOWN_DESTINATION

\* C24: a token leaves the registry of an instance only in a step of that
\* instance's bootstrap, taken while none of its channels had left state SYN;
\* so a token whose channel is initialized stays in the registry in every
\* step, timer firing or inbound message.
C24_RemovedOnlyByRestart ==
    [][\A p \in Instances : \A t \in KeysOf(channels[p]) :
          /\ ~Has(channels'[p], t) =>
                /\ last'.op = "connectToFrame"
                /\ last'.inst = p
                /\ ~InitializationOngoing(channels[p])
          /\ Get(channels[p], t).initialized => Has(channels'[p], t)
      ]_vars

\* C24 witness: a bootstrap restart has just replaced the registry of an
\* instance with the channel of a new token; one token has been removed so far
\* and it is not the one just drawn.
C24_Witness ==
    /\ last.op = "connectToFrame"
    /\ Cardinality(discarded[last.inst]) = 1
    /\ last.arg \notin discarded[last.inst]
    /\ KeysOf(channels[last.inst]) = {last.arg}
    /\ ~InitializationOngoing(channels[last.inst])

\* C25: a bootstrap attempt made while the Initiator's frame has no content
\* window fails with an error; it does not store a SYN channel without peer
\* handle, send nothing and schedule the next attempt.
C25_MissingFrameFails ==
    [][(last'.op = "connectToFrame" /\ last'.window = NoWindow) =>
          LET p == last'.inst IN
          /\ last'.err # NoError
          /\ ~(/\ \E i \in 1..Len(channels'[p]) :
                     channels'[p][i].state = "SYN" /\ channels'[p][i].window = NoWindow
               /\ out' = <<>>
               /\ interval'[p] = "pending")
      ]_vars

\* C26: an instance constructed without a frame never has a bootstrap timer
\* and never runs the bootstrap; the only handshake messages it sends are
\* SYN+ACKs and ACKs (never a SYN), each sent by its listener while handling
\* an inbound handshake message of the same token.
C26_ResponderOnlyReacts ==
    [][\A p \in Instances :
          Frame[p] = NoWindow =>
             /\ interval'[p] = "unset"
             /\ last'.inst = p =>
                   /\ last'.op # "connectToFrame"
                   /\ \A j \in 1..Len(out') :
                         out'[j].data.state # NoState =>
                            /\ out'[j].data.state \in {"SYN+ACK", "ACK"}
                            /\ last'.op = "listener"
                            /\ last'.event.data.state # NoState
                            /\ last'.event.data.token = out'[j].data.token
      ]_vars

\* C26 witness: the instance constructed without a frame has just answered a
\* retried SYN of the Initiator with a SYN+ACK of the same token; it has no
\* timer.
C26_Witness ==
    /\ Handled("SYN")
    /\ last.inst = "F"
    /\ attempts["W"] = 2
    /\ Len(out) = 1
    /\ out[1].data.state = "SYN+ACK"
    /\ out[1].data.token = last.event.data.token
    /\ interval["F"] = "unset"

\* C27: agreement on the session. In every state, for every token t under
\* which the Responder holds an initialized channel, the Initiator holds an
\* initialized channel under t too, the Initiator's destination for t is the
\* Responder's id and the Responder's destination for t is the Initiator's id.
C27_Agreement ==
    \A t \in KeysOf(channels["F"]) :
       Get(channels["F"], t).initialized =>
          /\ Has(channels["W"], t)
          /\ Get(channels["W"], t).initialized
          /\ Get(channels["W"], t).destination = Id["F"]
          /\ Get(channels["F"], t).destination = Id["W"]

\* C27 witness: after a retry of the Initiator, of which the Responder
\* answered both SYNs, the Responder holds two channels, the initialized one
\* being the one of the token the Initiator's only channel is initialized
\* under.
C27_Witness ==
    /\ attempts["W"] = 2
    /\ Len(channels["F"]) = 2
    /\ Len(channels["W"]) = 1
    /\ channels["W"][1].initialized
    /\ \E i \in 1..2 :
          /\ channels["F"][i].initialized
          /\ channels["F"][i].token = channels["W"][1].token
    /\ \E i \in 1..2 : ~channels["F"][i].initialized

\* C28: between the Initiator and the Responder, every application message
\* delivered finds, on the instance it is delivered to, a channel registered
\* under its token: none is dropped for an unknown token.
C28_NoUnknownTokenDrop ==
    [][Dispatched' => Has(channels[last'.inst], last'.event.data.token)]_vars

\* C28 witness: the Initiator has just received an application message of
\* the Responder, which holds a channel of an abandoned attempt besides the
\* initialized one; the message's token is the one of the Initiator's channel.
C28_Witness ==
    /\ Dispatched
    /\ last.inst = "W"
    /\ Len(channels["F"]) = 2
    /\ KeysOf(channels["W"]) = {last.event.data.token}
    /\ last.err = NoError

\* C29: over a transport that loses nothing, with every message in flight
\* eventually delivered and every scheduled timer eventually fired, the
\* Initiator eventually holds an initialized channel (runs in which the
\* transport did lose a message, by coalescing two equal ones, are set aside).
C29_EventuallyInitialized == <>(Initialized("W") \/ ~reliable)

\* C30: handlers are invoked only for application messages whose token's
\* channel is initialized on the receiving instance; a message for a token
\* whose channel is not initialized reaches no handler.
C30_OnlyInitializedDispatch ==
    [][(Dispatched' /\ calls' # <<>>) =>
          LET p == last'.inst
              token == last'.event.data.token
          IN /\ Has(channels[p], token)
             /\ Get(channels[p], token).initialized
      ]_vars

====
